---- MODULE Spec2Model ----
(***************************************************************************)
(* dissect.target.container: the Container.detect classmethod and the      *)
(* open() dispatcher of src/dissect/target/container.py.                   *)
(*                                                                         *)
(* One behaviour is one call open(item, *args, **kwargs).  The concrete    *)
(* container kinds (the dissect.target.containers package) are outside the *)
(* file: a kind's detect_fh / detect_path and its constructor are the      *)
(* environment, and each of their calls takes one of the outcomes Python   *)
(* allows: a return value or a raised exception.                           *)
(***************************************************************************)
EXTENDS Naturals, Sequences, FiniteSets

\* Longest list passed to open().
MaxLen == 2

\* Most candidates whose step ends in an ImportError during one open().
MaxUnavailable == 3

VARIABLES
    pc,        \* "start" | "probe" | "construct" | "done": position in open()
    input,     \* the item the caller passed to open()
    params,    \* the caller's *args and **kwargs
    item,      \* the local `item` of open() (rebound by the normalisation)
    idx,       \* position of the loop `for container in containers`
    probed,    \* container.detect(item) evaluations, in order, with outcome
    calls,     \* detect_fh / detect_path calls made by Container.detect
    built,     \* constructor calls container(item, *args, **kwargs)
    warnings,  \* log.warning records
    result     \* what open() returned or raised

vars == <<pc, input, params, item, idx, probed, calls, built, warnings, result>>

----------------------------------------------------------------------------
(* Values *)

\* Mutant: RawContainer listed before SplitContainer.
containersRawEarly ==
    << "EwfContainer", "VmdkContainer", "VhdxContainer", "VhdContainer",
       "QCow2Container", "VdiContainer", "RawContainer", "SplitContainer" >>

\* The list `containers` of open(), by class name.
containers ==
    << "EwfContainer", "VmdkContainer", "VhdxContainer", "VhdContainer",
       "QCow2Container", "VdiContainer", "SplitContainer", "RawContainer" >>

\* Python values an item is made of: a str, a pathlib.Path, a binary stream.
StrVal(s) == [t |-> "str", v |-> s]
PathVal(s) == [t |-> "Path", v |-> s]
FhVal(s) == [t |-> "fh", v |-> s]
ListVal(q) == [t |-> "list", v |-> q]

Atoms == {StrVal("img/"), PathVal("img"), FhVal("fh1")}

SeqsUpTo(S, n) == UNION {[1..k -> S] : k \in 0..n}

Inputs == Atoms \cup {ListVal(q) : q \in SeqsUpTo(Atoms, MaxLen)}

\* *args as a tuple, **kwargs as a set of <<name, value>> pairs.
Params ==
    { [args |-> <<>>, kwargs |-> {}],
      [args |-> <<"a1", "a2">>, kwargs |-> {<<"vs", "vs1">>}] }

\* isinstance(x, list), isinstance(x, str)
IsList(x) == x.t = "list"
IsStr(x) == x.t = "str"

\* pathlib drops a trailing separator: str(Path("img/")) == "img".
PathStr(s) == IF s = "img/" THEN "img" ELSE s

\* Path(entry) for a str entry.
Path(entry) == [t |-> "Path", v |-> PathStr(entry.v)]

\* hasattr(i, "read"): a stream has it, a Path and a str do not.
HasRead(i) == i.t = "fh"

----------------------------------------------------------------------------
(* Exceptions *)

Exceptions == {"ImportError", "ValueError", "KeyboardInterrupt"}

\* Mutant: the first except clause catches every exception.
IsImportErrorBroad(e) == e \in {"ImportError", "ValueError", "IndexError"}

\* `except ImportError`
IsImportError(e) == e = "ImportError"

\* `except Exception`: KeyboardInterrupt derives from BaseException only.
IsException(e) == e \in {"ImportError", "ValueError", "IndexError"}

----------------------------------------------------------------------------
(* Text of the error messages: an f-string as the sequence of its pieces *)

\* repr() of a list element.
Repr(a) ==
    IF a.t = "str" THEN <<"'", a.v, "'">>
    ELSE IF a.t = "Path" THEN <<"PosixPath('", a.v, "')">>
    ELSE <<"<", a.v, ">">>

RECURSIVE JoinRepr(_)
JoinRepr(q) ==
    IF Len(q) = 0 THEN <<>>
    ELSE IF Len(q) = 1 THEN Repr(q[1])
    ELSE Repr(q[1]) \o <<", ">> \o JoinRepr(Tail(q))

\* f"{x}": str() of a str or Path is its text, of a list its elements' repr().
Format(x) ==
    IF IsList(x) THEN <<"[">> \o JoinRepr(x.v) \o <<"]">>
    ELSE IF x.t = "fh" THEN <<"<", x.v, ">">>
    ELSE <<x.v>>

----------------------------------------------------------------------------
(* Results of open() *)

NoResult == [type |-> "none", cls |-> "None", msg |-> <<>>, cause |-> "None"]

Returned(cls) == [type |-> "return", cls |-> cls, msg |-> <<>>, cause |-> "None"]

\* Mutant: the error is raised without its cause.
OpenFailureNoCause(x, e) ==
    [type |-> "raise", cls |-> "ContainerError",
     msg |-> <<"Failed to open container ">> \o Format(x), cause |-> "None"]

\* raise ContainerError(f"Failed to open container {item}", cause=e)
OpenFailure(x, e) ==
    [type |-> "raise", cls |-> "ContainerError",
     msg |-> <<"Failed to open container ">> \o Format(x), cause |-> e]

\* raise ContainerError(f"Failed to detect container for {item}")
NoMatch(x) ==
    [type |-> "raise", cls |-> "ContainerError",
     msg |-> <<"Failed to detect container for ">> \o Format(x), cause |-> "None"]

\* An exception no except clause of open() matches leaves open() as it is.
Propagated(e) == [type |-> "raise", cls |-> e, msg |-> <<>>, cause |-> "None"]

----------------------------------------------------------------------------
(* open(): normalisation *)

\* Mutant: the entries of a list are left as they are.
NormalizeItemScalarOnly(x) == IF IsStr(x) THEN Path(x) ELSE x

NormalizeItem(x) ==
    IF IsList(x)
    THEN ListVal([k \in 1..Len(x.v) |->
                    IF IsStr(x.v[k]) THEN Path(x.v[k]) ELSE x.v[k]])
    ELSE IF IsStr(x) THEN Path(x)
    ELSE x

Init ==
    /\ pc = "start"
    /\ input \in Inputs
    /\ params \in Params
    /\ item = input
    /\ idx = 1
    /\ probed = <<>>
    /\ calls = <<>>
    /\ built = <<>>
    /\ warnings = <<>>
    /\ result = NoResult

Normalize ==
    /\ pc = "start"
    /\ item' = NormalizeItem(item)
    /\ pc' = "probe"
    /\ UNCHANGED <<input, params, idx, probed, calls, built, warnings, result>>

----------------------------------------------------------------------------
(* Container.detect *)

\* Mutant: item[-1] instead of item[0].
RepresentativeLast(x) == IF IsList(x) THEN x.v[Len(x.v)] ELSE x

\* i = item[0] if isinstance(item, list) else item
Representative(x) == IF IsList(x) THEN x.v[1] ELSE x

\* The static method Container.detect hands the representative to.
DetectFn(i) == IF HasRead(i) THEN "detect_fh" ELSE "detect_path"

\* cls.detect(x) where the detect_fh / detect_path it calls ends in r (a
\* return value "True" / "False" or a raised exception): whether a call was
\* made, the call, and how detect itself ends.  item[0] of an empty list
\* raises IndexError before anything is called.
ContainerDetect(cls, x, r) ==
    IF IsList(x) /\ Len(x.v) = 0
    THEN [called |-> FALSE, call |-> <<>>, out |-> "IndexError"]
    ELSE [called |-> TRUE,
          call |-> << [kind |-> cls, fn |-> DetectFn(Representative(x)),
                       first |-> Representative(x), original |-> x, ret |-> r] >>,
          out |-> r]

----------------------------------------------------------------------------
(* open(): the loop *)

\* Outcomes of a kind's detect_fh / detect_path, and of resolving the lazily
\* imported kind (an ImportError when its backend is missing).
DetectOutcomes == {"True", "False"} \cup Exceptions

\* Outcomes of a kind's constructor.
InitOutcomes == {"ok"} \cup Exceptions

\* RawContainer: detects every item and opens it.
RawDetectOutcomes == {"True"}
RawInitOutcomes == {"ok"}

DetectOutcomesOf(cls, rawAlways) ==
    IF rawAlways /\ cls = "RawContainer" THEN RawDetectOutcomes ELSE DetectOutcomes

InitOutcomesOf(cls, rawAlways) ==
    IF rawAlways /\ cls = "RawContainer" THEN RawInitOutcomes ELSE InitOutcomes

\* Mutant: the loop leaves out the last container.
NextContainerShort(w) ==
    IF idx < Len(containers) - 1
    THEN [pc |-> "probe", idx |-> idx + 1, warnings |-> w, result |-> result]
    ELSE [pc |-> "done", idx |-> idx, warnings |-> w, result |-> NoMatch(item)]

\* The end of a loop iteration that neither returned nor raised: the next
\* container, or the raise after the loop.
NextContainer(w) ==
    IF idx < Len(containers)
    THEN [pc |-> "probe", idx |-> idx + 1, warnings |-> w, result |-> result]
    ELSE [pc |-> "done", idx |-> idx, warnings |-> w, result |-> NoMatch(item)]

\* The except clauses around `if container.detect(item): return container(...)`.
Handle(e) ==
    IF IsImportError(e)
    THEN NextContainer(Append(warnings, [container |-> containers[idx], exc_info |-> e]))
    ELSE IF IsException(e)
    THEN [pc |-> "done", idx |-> idx, warnings |-> warnings,
          result |-> OpenFailure(item, e)]
    ELSE [pc |-> "done", idx |-> idx, warnings |-> warnings,
          result |-> Propagated(e)]

Apply(n) ==
    /\ pc' = n.pc
    /\ idx' = n.idx
    /\ warnings' = n.warnings
    /\ result' = n.result

\* container.detect(item)
Detect(rawAlways) ==
    /\ pc = "probe"
    /\ \E r \in DetectOutcomesOf(containers[idx], rawAlways) :
         /\ r = "ImportError" => Len(warnings) < MaxUnavailable
         /\ LET d == IF r = "ImportError"
                     THEN [called |-> FALSE, call |-> <<>>, out |-> r]
                     ELSE ContainerDetect(containers[idx], item, r)
            IN  /\ probed' = Append(probed, [kind |-> containers[idx],
                                             arg |-> item, out |-> d.out])
                /\ calls' = calls \o d.call
                /\ IF d.out = "True"
                   THEN /\ pc' = "construct"
                        /\ UNCHANGED <<idx, warnings, result>>
                   ELSE IF d.out = "False"
                   THEN Apply(NextContainer(warnings))
                   ELSE Apply(Handle(d.out))
    /\ UNCHANGED <<input, params, item, built>>

\* return container(item, *args, **kwargs)
Construct(rawAlways) ==
    /\ pc = "construct"
    /\ \E r \in InitOutcomesOf(containers[idx], rawAlways) :
         /\ r = "ImportError" => Len(warnings) < MaxUnavailable
         /\ built' = Append(built, [kind |-> containers[idx], arg |-> item,
                                    args |-> params.args, kwargs |-> params.kwargs,
                                    out |-> r])
         /\ IF r = "ok"
            THEN /\ pc' = "done"
                 /\ result' = Returned(containers[idx])
                 /\ UNCHANGED <<idx, warnings>>
            ELSE Apply(Handle(r))
    /\ UNCHANGED <<input, params, item, probed, calls>>

\* open() over kinds that may behave in any way.
Next == Normalize \/ Detect(FALSE) \/ Construct(FALSE)

Spec == Init /\ [][Next]_vars

\* open() with RawContainer detecting and opening everything.
NextRaw == Normalize \/ Detect(TRUE) \/ Construct(TRUE)

SpecRaw == Init /\ [][NextRaw]_vars

----------------------------------------------------------------------------
(* Properties *)

Last(q) == q[Len(q)]

\* The kinds whose constructor was called.
BuiltKinds == {built[i].kind : i \in DOMAIN built}

\* The first evaluation of container.detect(item) after position i that
\* returned true, 0 when there is none.
FirstTrueAfter(i) ==
    IF \E j \in DOMAIN probed : j > i /\ probed[j].out = "True"
    THEN CHOOSE j \in DOMAIN probed :
            /\ j > i
            /\ probed[j].out = "True"
            /\ \A k \in DOMAIN probed : (k > i /\ k < j) => probed[k].out # "True"
    ELSE 0

\* open() raised the ContainerError of the line after the loop.
IsNoMatch(r) ==
    /\ r.type = "raise"
    /\ r.cls = "ContainerError"
    /\ r.msg # <<>>
    /\ r.msg[1] = "Failed to detect container for "

\* open() raised the ContainerError of the except clause.
IsOpenFailure(r) ==
    /\ r.type = "raise"
    /\ r.cls = "ContainerError"
    /\ r.msg # <<>>
    /\ r.msg[1] = "Failed to open container "

\* The loop visits the registry in order, one detect per visited kind.
ProbedInOrder ==
    /\ Len(probed) <= Len(containers)
    /\ \A i \in DOMAIN probed : probed[i].kind = containers[i]

\* C1: whenever open() returns a container, it is an instance of the earliest
\* kind of the registry whose detect() returned true; a kind whose detect()
\* returned false is never the one returned; and no kind registered after the
\* returned one had its detect() called.
C1_FirstMatchWins ==
    result.type = "return" =>
        /\ ProbedInOrder
        /\ FirstTrueAfter(0) # 0
        /\ result.cls = probed[FirstTrueAfter(0)].kind
        /\ \A i \in DOMAIN probed :
              probed[i].out = "False" => probed[i].kind # result.cls
        /\ result.cls = Last(probed).kind

\* C2: if a candidate's detect() returned true and its constructor raised an
\* error, whatever the error, open() raises the ContainerError that wraps it
\* as its cause, and no later candidate is probed or constructed.
C2_FatalOnMatch ==
    \A i \in DOMAIN built :
        built[i].out \in {"ImportError", "ValueError"} =>
            /\ pc = "done"
            /\ IsOpenFailure(result)
            /\ result.cause = built[i].out
            /\ i = Len(built)
            /\ Last(probed).kind = built[i].kind

\* C3: if a candidate's detect() raises an error other than ImportError,
\* open() ends at once with the ContainerError that carries the error as its
\* cause: that detect() is the last one evaluated, and neither that candidate
\* nor a later one is constructed.
C3_DetectErrorFatal ==
    \A i \in DOMAIN probed :
        probed[i].out \in {"ValueError", "IndexError"} =>
            /\ pc = "done"
            /\ IsOpenFailure(result)
            /\ result.cause = probed[i].out
            /\ i = Len(probed)
            /\ \A j \in i..Len(containers) : containers[j] \notin BuiltKinds

C3_Witness ==
    /\ Len(probed) > 2
    /\ Last(probed).out = "ValueError"
    /\ \E i \in DOMAIN probed : probed[i].out = "ImportError"
    /\ IsOpenFailure(result)

\* C4: if a candidate's detection raises ImportError, open() logs a warning
\* for that candidate, raises nothing for it and goes on with the next
\* candidate of the registry, and a container open() then returns is an
\* instance of the first later candidate whose detect() returned true.
C4_UnavailableNonFatal ==
    \A i \in DOMAIN probed :
        probed[i].out = "ImportError" =>
            /\ \E w \in DOMAIN warnings :
                  /\ warnings[w].container = probed[i].kind
                  /\ warnings[w].exc_info = "ImportError"
            /\ (result.type = "raise" /\ i = Len(probed)) =>
                  (i = Len(containers) /\ IsNoMatch(result))
            /\ (i < Len(containers) /\ i = Len(probed)) =>
                  (pc = "probe" /\ idx = i + 1 /\ result = NoResult)
            /\ i < Len(probed) => probed[i + 1].kind = containers[i + 1]
            /\ result.type = "return" =>
                  /\ FirstTrueAfter(i) # 0
                  /\ result.cls = probed[FirstTrueAfter(i)].kind

C6_ListDetect ==
    /\ \A c \in DOMAIN calls :
          /\ calls[c].original = item
          /\ IF item.t = "list"
             THEN item.v # <<>> /\ calls[c].first = item.v[1]
             ELSE calls[c].first = item
          /\ calls[c].fn = (IF calls[c].first.t = "fh" THEN "detect_fh" ELSE "detect_path")
    /\ \A i \in DOMAIN probed :
          IF probed[i].out = "ImportError" \/ item = ListVal(<<>>)
          THEN \A c \in DOMAIN calls : calls[c].kind # probed[i].kind
          ELSE /\ Cardinality({c \in DOMAIN calls : calls[c].kind = probed[i].kind}) = 1
               /\ \A c \in DOMAIN calls :
                     calls[c].kind = probed[i].kind => calls[c].ret = probed[i].out

C6_Witness ==
    /\ item.t = "list"
    /\ Len(item.v) = 2
    /\ item.v[1].t = "fh"
    /\ item.v[2].t = "Path"
    /\ Len(calls) > 1
    /\ Last(calls).fn = "detect_fh"
    /\ Last(calls).ret = "True"

\* The error that ended the candidate's step: what its constructor raised, or
\* else what its detect() raised.
Raised ==
    IF built # <<>> /\ Last(built).kind = Last(probed).kind
    THEN Last(built).out
    ELSE Last(probed).out

\* C7 as stated: the open-failure error wraps the underlying cause and
\* identifies both the offending candidate kind and the input the caller
\* passed to open().
C7_NamesCandidateAndInput ==
    IsOpenFailure(result) =>
        /\ result.cause = Raised
        /\ \E k \in DOMAIN result.msg : result.msg[k] = containers[idx]
        /\ result.msg = <<"Failed to open container ">> \o Format(input)

\* C7, amended: open() raises the open-failure error exactly when a
\* candidate's detect() or constructor raised an error other than
\* ImportError; the error wraps that error as its cause, and its message is
\* "Failed to open container " followed by the item as open() normalized it.
C7_WrapsCauseNamesItem ==
    /\ ( /\ pc = "done"
         /\ probed # <<>>
         /\ Raised \in {"ValueError", "IndexError"} )
       => /\ result.type = "raise"
          /\ result.cls = "ContainerError"
          /\ result.cause = Raised
          /\ result.msg = <<"Failed to open container ">> \o Format(item)
    /\ IsOpenFailure(result) =>
          (pc = "done" /\ probed # <<>> /\ Raised \in {"ValueError", "IndexError"})

C7_Witness ==
    /\ IsOpenFailure(result)
    /\ input.t = "list"
    /\ Format(input) # Format(item)
    /\ built # <<>>
    /\ Last(built).out = "ValueError"

\* C8 as stated: the no-matching-container error is raised only after the
\* whole registry was visited, exactly when every candidate's detect()
\* returned false, and carries no cause.
C8_NoMatchIffAllFalse ==
    /\ IsNoMatch(result) =>
          /\ Len(probed) = Len(containers)
          /\ \A i \in DOMAIN probed : probed[i].out = "False"
          /\ result.cause = "None"
    /\ ( /\ pc = "done"
         /\ Len(probed) = Len(containers)
         /\ \A i \in DOMAIN probed : probed[i].out = "False" )
       => IsNoMatch(result)

\* The candidate at position i neither returned a container nor ended open():
\* its detect() returned false or raised ImportError, or its constructor
\* raised ImportError.
Declined(i) ==
    \/ probed[i].out \in {"False", "ImportError"}
    \/ /\ probed[i].out = "True"
       /\ \E b \in DOMAIN built :
             built[b].kind = probed[i].kind /\ built[b].out = "ImportError"

\* C8, amended: the no-matching-container error is raised only after the
\* whole registry was visited, exactly when every candidate's detect()
\* returned false or the candidate's step raised ImportError; it carries no
\* cause, and the open-failure error always carries one.
C8_NoMatchIffAllDeclined ==
    /\ IsNoMatch(result) =>
          /\ pc = "done"
          /\ Len(probed) = Len(containers)
          /\ \A i \in DOMAIN probed : Declined(i)
          /\ result.cause = "None"
    /\ ( /\ pc \in {"probe", "done"}
         /\ Len(probed) = Len(containers)
         /\ \A i \in DOMAIN probed : Declined(i) )
       => (pc = "done" /\ IsNoMatch(result))
    /\ IsOpenFailure(result) => result.cause # "None"

C8_Witness ==
    /\ IsNoMatch(result)
    /\ \E i \in DOMAIN probed : probed[i].out = "ImportError"
    /\ \E i \in DOMAIN probed : probed[i].out = "False"

\* C9: when open() returns a container, the constructor of its kind was
\* called exactly once, with the normalized item first and then the caller's
\* positional and keyword parameters unchanged, and no other kind's
\* constructor was called.
C9_ForwardsParams ==
    result.type = "return" =>
        /\ Len(built) = 1
        /\ built[1].kind = result.cls
        /\ built[1].arg = item
        /\ built[1].args = params.args
        /\ built[1].kwargs = params.kwargs

\* C10: open() turns a str item into a Path; in a list it turns every str
\* entry into a Path and leaves the other entries, the length and the order
\* as they are; it leaves a stream or a Path as it is.  Every detect() and
\* the constructor receive the item so normalized.
C10_Normalized ==
    pc # "start" =>
        /\ input.t = "str" => item = PathVal(PathStr(input.v))
        /\ input.t \in {"Path", "fh"} => item = input
        /\ input.t = "list" =>
              /\ item.t = "list"
              /\ Len(item.v) = Len(input.v)
              /\ \A k \in DOMAIN input.v :
                    IF input.v[k].t = "str"
                    THEN item.v[k] = PathVal(PathStr(input.v[k].v))
                    ELSE item.v[k] = input.v[k]
        /\ \A i \in DOMAIN probed : probed[i].arg = item
        /\ \A c \in DOMAIN calls : calls[c].original = item
        /\ \A b \in DOMAIN built : built[b].arg = item

C10_Witness ==
    /\ result.type = "return"
    /\ input = ListVal(<<FhVal("fh1"), StrVal("img/")>>)
    /\ item = ListVal(<<FhVal("fh1"), PathVal("img")>>)
    /\ Len(probed) > 1
    /\ built # <<>>

====
